---- MODULE Spec2Model ----
(***************************************************************************)
(* Model of sslyze/plugins/certificate_info/json_output.py: the            *)
(* registration of the JSON serializer functions for certificates and      *)
(* object identifiers, the __deepcopy__ method patched onto _Certificate,  *)
(* and the projection of a certificate to a JSON-compatible mapping.       *)
(*                                                                         *)
(* Representation of Python values:                                        *)
(*   bytes  a sequence of numbers 0..255                                   *)
(*   str    a sequence of one-character strings                            *)
(*   int    a big-endian sequence of base-256 digits without leading zero  *)
(*          (arbitrary precision; <<>> is 0)                               *)
(*   dict   a function whose domain is a set of strings                    *)
(*   an exception that leaves a function is a record [raised |-> name]     *)
(***************************************************************************)
EXTENDS Integers, Sequences, FiniteSets, TLC

\* ------------------------------------------------------------------------
\* Text and bytes

\* The characters the certificate library and the formatting calls produce
\* (letters, digits, and the punctuation of PEM armor, base64, names, dates).
Digits == << "0", "1", "2", "3", "4", "5", "6", "7", "8", "9" >>

UpperCase ==
    << "A", "B", "C", "D", "E", "F", "G", "H", "I", "J", "K", "L", "M",
       "N", "O", "P", "Q", "R", "S", "T", "U", "V", "W", "X", "Y", "Z" >>

LowerCase ==
    << "a", "b", "c", "d", "e", "f", "g", "h", "i", "j", "k", "l", "m",
       "n", "o", "p", "q", "r", "s", "t", "u", "v", "w", "x", "y", "z" >>

Chr(b) == CASE b = 10 -> "\n"
            [] b = 32 -> " "
            [] b = 43 -> "+"
            [] b = 44 -> ","
            [] b = 45 -> "-"
            [] b = 46 -> "."
            [] b = 47 -> "/"
            [] b \in 48..57 -> Digits[b - 47]
            [] b = 58 -> ":"
            [] b = 61 -> "="
            [] b \in 65..90 -> UpperCase[b - 64]
            [] b = 95 -> "_"
            [] b \in 97..122 -> LowerCase[b - 96]

CharCodes == {10, 32, 43, 44, 45, 46, 47, 58, 61, 95} \cup (48..57) \cup (65..90) \cup (97..122)

Ord(ch) == CHOOSE b \in CharCodes : Chr(b) = ch

\* The outcome of a call that can raise: [ok |-> value] when it returns,
\* [raised |-> exception name] when an exception leaves it.
Ok(v) == [ok |-> v]

Raise(name) == [raised |-> name]

IsRaised(r) == "raised" \in DOMAIN r

\* bytes.decode("ascii"); the code's decode("utf-8") agrees with it below 128
DecodeAscii(bytes) ==
    IF \E i \in 1..Len(bytes) : bytes[i] >= 128
    THEN Raise("UnicodeDecodeError")
    ELSE Ok([i \in 1..Len(bytes) |-> Chr(bytes[i])])

\* str.encode("ascii")
EncodeAscii(str) == [i \in 1..Len(str) |-> Ord(str[i])]

\* ------------------------------------------------------------------------
\* Base64 (RFC 4648, standard alphabet, "=" padding)

B64Char(i) == CASE i < 26 -> 65 + i
                [] i >= 26 /\ i < 52 -> 97 + (i - 26)
                [] i >= 52 /\ i < 62 -> 48 + (i - 52)
                [] i = 62 -> 43
                [] i = 63 -> 47

B64Index(c) == CASE c \in 65..90 -> c - 65
                 [] c \in 97..122 -> c - 97 + 26
                 [] c \in 48..57 -> c - 48 + 52
                 [] c = 43 -> 62
                 [] c = 47 -> 63
                 [] OTHER -> -1

RECURSIVE b64encode(_)
b64encode(bytes) ==
    IF Len(bytes) = 0 THEN << >>
    ELSE IF Len(bytes) = 1 THEN
        << B64Char(bytes[1] \div 4), B64Char((bytes[1] % 4) * 16), 61, 61 >>
    ELSE IF Len(bytes) = 2 THEN
        << B64Char(bytes[1] \div 4),
           B64Char((bytes[1] % 4) * 16 + bytes[2] \div 16),
           B64Char((bytes[2] % 16) * 4), 61 >>
    ELSE
        << B64Char(bytes[1] \div 4),
           B64Char((bytes[1] % 4) * 16 + bytes[2] \div 16),
           B64Char((bytes[2] % 16) * 4 + bytes[3] \div 64),
           B64Char(bytes[3] % 64) >>
        \o b64encode(SubSeq(bytes, 4, Len(bytes)))

\* base64 decoding of a whole number of 4-character groups
RECURSIVE b64decode(_)
b64decode(chars) ==
    IF Len(chars) = 0 THEN Ok(<< >>)
    ELSE IF Len(chars) < 4 THEN Raise("ValueError")
    ELSE
        LET a == B64Index(chars[1])
            b == B64Index(chars[2])
            c == B64Index(chars[3])
            d == B64Index(chars[4])
            rest == b64decode(SubSeq(chars, 5, Len(chars)))
        IN  IF a < 0 \/ b < 0 THEN Raise("ValueError")
            ELSE IF chars[3] = 61 /\ chars[4] = 61 THEN
                IF Len(chars) = 4 THEN Ok(<< a * 4 + b \div 16 >>) ELSE Raise("ValueError")
            ELSE IF chars[4] = 61 THEN
                IF Len(chars) = 4 /\ c >= 0
                THEN Ok(<< a * 4 + b \div 16, (b % 16) * 16 + c \div 4 >>)
                ELSE Raise("ValueError")
            ELSE IF c < 0 \/ d < 0 \/ IsRaised(rest) THEN Raise("ValueError")
            ELSE Ok(<< a * 4 + b \div 16, (b % 16) * 16 + c \div 4, (c % 4) * 64 + d >>
                    \o rest.ok)

\* ------------------------------------------------------------------------
\* Python int (arbitrary precision) and str(int)

\* Drop leading zero digits.
RECURSIVE Normalize(_)
Normalize(n) == IF Len(n) > 0 /\ n[1] = 0 THEN Normalize(Tail(n)) ELSE n

\* Long division of a base-256 number by 10: <<quotient digits, remainder>>.
RECURSIVE DivMod10(_, _)
DivMod10(n, carry) ==
    IF Len(n) = 0 THEN << << >>, carry >>
    ELSE LET cur == carry * 256 + n[1]
             rest == DivMod10(Tail(n), cur % 10)
         IN  << << cur \div 10 >> \o rest[1], rest[2] >>

\* str(n) for n >= 0: the decimal digits, most significant first
RECURSIVE StrDigits(_)
StrDigits(n) ==
    IF Len(n) = 0 THEN << >>
    ELSE LET qr == DivMod10(n, 0)
         IN  StrDigits(Normalize(qr[1])) \o << Digits[qr[2] + 1] >>

IntToStr(n) == IF Len(n) = 0 THEN << "0" >> ELSE StrDigits(n)

\* n * factor + add in base 256 from digit i on: <<digits, carry out>>
RECURSIVE MulAdd(_, _, _, _)
MulAdd(n, i, factor, add) ==
    IF i > Len(n) THEN << << >>, add >>
    ELSE LET low == MulAdd(n, i + 1, factor, add)
             cur == n[i] * factor + low[2]
         IN  << << cur % 256 >> \o low[1], cur \div 256 >>

DigitValue(ch) == CHOOSE i \in 0..9 : Digits[i + 1] = ch

\* The number that characters lo..hi (at most four decimal digits) denote.
RECURSIVE ChunkValue(_, _, _)
ChunkValue(s, lo, hi) ==
    IF lo > hi THEN 0 ELSE ChunkValue(s, lo, hi - 1) * 10 + DigitValue(s[hi])

\* A small number as a Python int.
RECURSIVE PyInt(_)
PyInt(k) == IF k = 0 THEN << >> ELSE PyInt(k \div 256) \o << k % 256 >>

\* The number the first k characters of a string of decimal digits denote,
\* accumulated four digits at a time.
RECURSIVE ValueOfPrefix(_, _)
ValueOfPrefix(s, k) ==
    IF k = 0 THEN << >>
    ELSE LET j == IF k >= 4 THEN 4 ELSE k
             factor == CASE j = 1 -> 10 [] j = 2 -> 100 [] j = 3 -> 1000 [] j = 4 -> 10000
             m == MulAdd(ValueOfPrefix(s, k - j), 1, factor, ChunkValue(s, k - j + 1, k))
         IN  Normalize(PyInt(m[2]) \o m[1])

\* int(s) for a string of decimal digits
ValueOfDecimal(s) == ValueOfPrefix(s, Len(s))

IsDecimalString(s) ==
    /\ Len(s) >= 1
    /\ \A i \in 1..Len(s) : \E d \in 1..10 : s[i] = Digits[d]

\* ------------------------------------------------------------------------
\* The certificate library: PEM armor, parsing, accessors

PemHeader ==
    EncodeAscii(<< "-", "-", "-", "-", "-", "B", "E", "G", "I", "N", " ", "C", "E", "R", "T", "I", "F", "I", "C", "A", "T", "E", "-", "-", "-", "-", "-" >>) \o << 10 >>

PemFooter ==
    EncodeAscii(<< "-", "-", "-", "-", "-", "E", "N", "D", " ", "C", "E", "R", "T", "I", "F", "I", "C", "A", "T", "E", "-", "-", "-", "-", "-" >>) \o << 10 >>

\* The base64 text in lines of 64 characters, each ended by a newline.
RECURSIVE WrapLines(_)
WrapLines(chars) ==
    IF Len(chars) <= 64 THEN chars \o << 10 >>
    ELSE SubSeq(chars, 1, 64) \o << 10 >> \o WrapLines(SubSeq(chars, 65, Len(chars)))

RECURSIVE DropNewlines(_)
DropNewlines(bytes) ==
    IF Len(bytes) = 0 THEN << >>
    ELSE IF bytes[1] = 10 THEN DropNewlines(Tail(bytes))
    ELSE << bytes[1] >> \o DropNewlines(Tail(bytes))

\* certificate.public_bytes(Encoding.PEM): bytes
PublicBytesPem(cert) == PemHeader \o WrapLines(b64encode(cert.der)) \o PemFooter

\* certificate.public_bytes(Encoding.DER): bytes
PublicBytesDer(cert) == cert.der

HasPrefix(bytes, prefix) ==
    Len(bytes) >= Len(prefix) /\ SubSeq(bytes, 1, Len(prefix)) = prefix

HasSuffix(bytes, suffix) ==
    Len(bytes) >= Len(suffix)
    /\ SubSeq(bytes, Len(bytes) - Len(suffix) + 1, Len(bytes)) = suffix

\* ------------------------------------------------------------------------
\* The certificates and object identifiers the collaborators hand to this module.
\* A certificate is what the parser built from its DER encoding; a public key
\* is a record of the attributes its class has.

RsaKey(bits, e) ==
    [ class_name |-> << "_", "R", "S", "A", "P", "u", "b", "l", "i", "c", "K", "e", "y" >>,
      is_elliptic_curve |-> FALSE,
      key_size |-> bits,
      public_numbers |-> [e |-> e, n |-> << 201, 7 >>] ]

EcKey ==
    [ class_name |-> << "_", "E", "l", "l", "i", "p", "t", "i", "c", "C", "u", "r", "v", "e", "P", "u", "b", "l", "i", "c", "K", "e", "y" >>,
      is_elliptic_curve |-> TRUE,
      key_size |-> PyInt(256),
      curve |-> [name |-> << "s", "e", "c", "p", "2", "5", "6", "r", "1" >>, key_size |-> PyInt(256)],
      public_numbers |-> [x |-> << 9, 1 >>, y |-> << 4, 2 >>] ]

\* DSA public numbers are y and the domain parameters: there is no e.
DsaKey ==
    [ class_name |-> << "_", "D", "S", "A", "P", "u", "b", "l", "i", "c", "K", "e", "y" >>,
      is_elliptic_curve |-> FALSE,
      key_size |-> PyInt(1024),
      public_numbers |-> [y |-> << 77, 3 >>] ]

\* An Ed25519 public key has neither key_size nor public_numbers().
Ed25519Key ==
    [ class_name |-> << "_", "E", "d", "2", "5", "5", "1", "9", "P", "u", "b", "l", "i", "c", "K", "e", "y" >>,
      is_elliptic_curve |-> FALSE ]

DateTime(y, mo, d, h, mi, sec) ==
    [year |-> y, month |-> mo, day |-> d, hour |-> h, minute |-> mi, second |-> sec]

DerBytes(len, step) == [i \in 1..len |-> (i * step + 48) % 256]

Digest(seed) == [i \in 1..32 |-> (i * seed + 11) % 256]

DnsName(s) == [type |-> "DNSName", value |-> s]

IpAddress(s) == [type |-> "IPAddress", value |-> s]

Sha(name) == [name |-> name]

\* RSA 2048, serial above 64 bits, DNS and IP subject alternative names
CertRsaSan ==
    [ der |-> DerBytes(7, 37),
      subject |-> << << "C", "N", "=", "a", ".", "t", "e", "s", "t" >>, << "O", "=", "O", "r", "g" >> >>,
      issuer |-> << << "C", "N", "=", "c", "a" >> >>,
      serial_number |-> << 1, 0, 0, 0, 0, 0, 0, 0, 7 >>,
      not_valid_before |-> DateTime(2019, 1, 5, 0, 0, 9),
      not_valid_after |-> DateTime(2021, 12, 31, 23, 59, 59),
      signature_hash_algorithm |-> Sha(<< "s", "h", "a", "2", "5", "6" >>),
      public_key |-> RsaKey(PyInt(2048), << 1, 0, 1 >>),
      spki_sha256 |-> Digest(3),
      san |-> << DnsName(<< "a", ".", "t", "e", "s", "t" >>), IpAddress(<< "1", "0", ".", "0", ".", "0", ".", "1" >>), DnsName(<< "b", ".", "t", "e", "s", "t" >>) >> ]

\* RSA 4096, 160-bit serial, public exponent 2^64 + 1, no subject alternative name
CertRsaBig ==
    [ der |-> DerBytes(50, 91),
      subject |-> << << "C", "N", "=", "b", "i", "g" >> >>,
      issuer |-> << << "C", "N", "=", "b", "i", "g" >> >>,
      serial_number |-> << 255, 1, 2, 3, 4, 5, 6, 7, 8, 9, 10, 11, 12, 13, 14, 15, 16, 17, 18, 19 >>,
      not_valid_before |-> DateTime(2020, 10, 10, 10, 10, 10),
      not_valid_after |-> DateTime(2030, 1, 1, 0, 0, 0),
      signature_hash_algorithm |-> Sha(<< "s", "h", "a", "5", "1", "2" >>),
      public_key |-> RsaKey(PyInt(4096), << 1, 0, 0, 0, 0, 0, 0, 0, 1 >>),
      spki_sha256 |-> Digest(5),
      san |-> << >> ]

\* Elliptic-curve key, subject alternative name without any DNS name
CertEc ==
    [ der |-> DerBytes(8, 13),
      subject |-> << << "C", "N", "=", "e", "c" >> >>,
      issuer |-> << << "C", "N", "=", "c", "a" >> >>,
      serial_number |-> << 42 >>,
      not_valid_before |-> DateTime(2020, 2, 29, 1, 2, 3),
      not_valid_after |-> DateTime(2022, 2, 28, 1, 2, 3),
      signature_hash_algorithm |-> Sha(<< "s", "h", "a", "3", "8", "4" >>),
      public_key |-> EcKey,
      spki_sha256 |-> Digest(7),
      san |-> << IpAddress(<< "1", "0", ".", "0", ".", "0", ".", "2" >>) >> ]

\* DSA key
CertDsa ==
    [ der |-> DerBytes(6, 59),
      subject |-> << << "C", "N", "=", "d", "s", "a" >> >>,
      issuer |-> << << "C", "N", "=", "c", "a" >> >>,
      serial_number |-> << 3, 232 >>,
      not_valid_before |-> DateTime(2018, 6, 1, 12, 0, 0),
      not_valid_after |-> DateTime(2028, 6, 1, 12, 0, 0),
      signature_hash_algorithm |-> Sha(<< "s", "h", "a", "2", "5", "6" >>),
      public_key |-> DsaKey,
      spki_sha256 |-> Digest(9),
      san |-> << DnsName(<< "d", ".", "t", "e", "s", "t" >>) >> ]

\* Ed25519 key
CertEd25519 ==
    [ der |-> DerBytes(9, 101),
      subject |-> << << "C", "N", "=", "e", "d" >> >>,
      issuer |-> << << "C", "N", "=", "c", "a" >> >>,
      serial_number |-> << 1, 0 >>,
      not_valid_before |-> DateTime(2020, 3, 4, 5, 6, 7),
      not_valid_after |-> DateTime(2021, 3, 4, 5, 6, 7),
      signature_hash_algorithm |-> Sha(<< "s", "h", "a", "2", "5", "6" >>),
      public_key |-> Ed25519Key,
      spki_sha256 |-> Digest(13),
      san |-> << >> ]

CertificateValues == {CertRsaSan, CertRsaBig, CertEc, CertDsa, CertEd25519}

\* ObjectIdentifier keeps the dotted string it was built from.
OidSha256WithRsa == [dotted_string |-> << "1", ".", "2", ".", "8", "4", "0", ".", "1", "1", "3", "5", "4", "9", ".", "1", ".", "1", ".", "1", "1" >>]

OidCommonName == [dotted_string |-> << "2", ".", "5", ".", "4", ".", "3" >>]

ObjectIdentifiers == {OidSha256WithRsa, OidCommonName}

\* The parser: the certificate a DER encoding denotes.
ParseDer(der) ==
    IF \E c \in CertificateValues : c.der = der
    THEN Ok(CHOOSE c \in CertificateValues : c.der = der)
    ELSE Raise("ValueError")

\* x509.load_pem_x509_certificate(data, backend)
load_pem_x509_certificate(data) ==
    IF ~(HasPrefix(data, PemHeader) /\ HasSuffix(data, PemFooter)
         /\ Len(data) >= Len(PemHeader) + Len(PemFooter))
    THEN Raise("ValueError")
    ELSE LET body == SubSeq(data, Len(PemHeader) + 1, Len(data) - Len(PemFooter))
             der == b64decode(DropNewlines(body))
         IN  IF IsRaised(der) THEN Raise("ValueError") ELSE ParseDer(der.ok)

\* getattr(obj, name): AttributeError when the object has no such attribute
GetAttr(obj, name) ==
    IF name \in DOMAIN obj THEN Ok(obj[name]) ELSE Raise("AttributeError")

\* Name.rfc4514_string(): the relative distinguished names, last first, comma-separated
RECURSIVE rfc4514_string(_)
rfc4514_string(name) ==
    IF Len(name) = 0 THEN << >>
    ELSE IF Len(name) = 1 THEN name[1]
    ELSE rfc4514_string(Tail(name)) \o << "," >> \o name[1]

\* A number below 10^width as exactly width decimal digits.
RECURSIVE ZeroPad(_, _)
ZeroPad(k, width) ==
    IF width = 0 THEN << >>
    ELSE ZeroPad(k \div 10, width - 1) \o << Digits[(k % 10) + 1] >>

\* datetime.strftime("%Y-%m-%d %H:%M:%S")
strftime(dt) ==
    ZeroPad(dt.year, 4) \o << "-" >> \o ZeroPad(dt.month, 2) \o << "-" >> \o ZeroPad(dt.day, 2)
    \o << " " >> \o ZeroPad(dt.hour, 2) \o << ":" >> \o ZeroPad(dt.minute, 2)
    \o << ":" >> \o ZeroPad(dt.second, 2)

\* certificate_utils.get_public_key_sha256(certificate): the 32 digest bytes
get_public_key_sha256(cert) == cert.spki_sha256

\* certificate_utils.extract_dns_subject_alternative_names(certificate):
\* the DNS names of the subject alternative name extension, in order
extract_dns_subject_alternative_names(cert) ==
    LET dns == SelectSeq(cert.san, LAMBDA gn : gn.type = "DNSName")
    IN  [i \in 1..Len(dns) |-> dns[i].value]

\* ------------------------------------------------------------------------
\* json_output.py: the projectors

\* d[k] = v on a dict
DictSet(d, k, v) == [x \in DOMAIN d \cup {k} |-> IF x = k THEN v ELSE d[x]]

_oid_to_json(obj) == obj.dotted_string

\* Variant: the base64 of the DER bytes without the PEM armor.
AsPemNoArmor(certificate) == DecodeAscii(b64encode(PublicBytesDer(certificate)))

\* the text of as_pem: the PEM bytes decoded as ASCII
AsPem(certificate) == DecodeAscii(PublicBytesPem(certificate))

\* Variant: the number narrowed to a 64-bit integer before it is printed.
StrTruncated64(n) ==
    IF Len(n) > 8 THEN IntToStr(Normalize(SubSeq(n, Len(n) - 7, Len(n)))) ELSE IntToStr(n)

\* str() of an int attribute
Str(n) == IntToStr(n)

\* The dict literal assigned to result.
ResultLiteral(certificate) ==
    LET as_pem == AsPem(certificate)
        hpkp_pin == DecodeAscii(b64encode(get_public_key_sha256(certificate)))
        hash_name == GetAttr(certificate.signature_hash_algorithm, "name")
    IN  IF IsRaised(as_pem) THEN as_pem
        ELSE IF IsRaised(hpkp_pin) THEN hpkp_pin
        ELSE IF IsRaised(hash_name) THEN hash_name
        ELSE Ok([ as_pem |-> as_pem.ok,
                  hpkp_pin |-> hpkp_pin.ok,
                  subject |-> rfc4514_string(certificate.subject),
                  issuer |-> rfc4514_string(certificate.issuer),
                  serialNumber |-> Str(certificate.serial_number),
                  notBefore |-> strftime(certificate.not_valid_before),
                  notAfter |-> strftime(certificate.not_valid_after),
                  signatureAlgorithm |-> hash_name.ok,
                  publicKey |-> [algorithm |-> certificate.public_key.class_name] ])

\* Variant: the key is set without the test of the list.
AddSubjectAlternativeNameAlways(certificate, result) ==
    DictSet(result, "subjectAlternativeName",
            [DNS |-> extract_dns_subject_alternative_names(certificate)])

\* dns_alt_names = ...; if dns_alt_names: result["subjectAlternativeName"] = ...
AddSubjectAlternativeName(certificate, result) ==
    LET dns_alt_names == extract_dns_subject_alternative_names(certificate)
    IN  IF Len(dns_alt_names) > 0
        THEN DictSet(result, "subjectAlternativeName", [DNS |-> dns_alt_names])
        ELSE result

\* The branch on the class of the public key; an attribute the key lacks
\* raises AttributeError and the local result is dropped.
AddPublicKeyInfo(certificate, result) ==
    LET public_key == certificate.public_key
    IN  IF public_key.is_elliptic_curve
        THEN LET withSize == DictSet(result.publicKey, "size", Str(public_key.curve.key_size))
             IN  Ok(DictSet(result, "publicKey",
                            DictSet(withSize, "curve", public_key.curve.name)))
        ELSE LET key_size == GetAttr(public_key, "key_size")
                 numbers == GetAttr(public_key, "public_numbers")
                 e == IF IsRaised(numbers) THEN numbers ELSE GetAttr(numbers.ok, "e")
             IN  IF IsRaised(key_size) THEN key_size
                 ELSE IF IsRaised(e) THEN e
                 ELSE Ok(DictSet(result, "publicKey",
                                 DictSet(DictSet(result.publicKey, "size", Str(key_size.ok)),
                                         "exponent", Str(e.ok))))

\* The whole call: the mapping returned, or the exception raised.
_certificate_to_json(certificate) ==
    LET literal == ResultLiteral(certificate)
    IN  IF IsRaised(literal) THEN literal
        ELSE AddPublicKeyInfo(certificate, AddSubjectAlternativeName(certificate, literal.ok))

\* ------------------------------------------------------------------------
\* The process: the dispatch table of object_to_json, the _Certificate class,
\* the certificate objects, and the threads that register, walk and call.

\* The most register_json_serializer_functions() calls of one run.
MaxRegisterCalls == 2

Callers == {"c1", "c2"}

VARIABLES
    registry,              \* object_to_json.registry: class -> function
    certificate_deepcopy,  \* _Certificate.__deepcopy__, or Absent
    heap,                  \* the certificate objects: reference -> certificate
    pcRegister,            \* where the registering thread is
    registerCalls,         \* register_json_serializer_functions() calls begun
    pcWalk,                \* where the serializing thread is
    walkArg,               \* the structure it serializes
    walkCopy,              \* the deep copy of the structure's certificate
    walkJson,              \* the JSON built so far
    walkResult,            \* what the walk returned or raised
    pcCall,                \* per caller: where its projector call is
    callArg,               \* per caller: the argument of the call
    callLocal,             \* per caller: the local variable result
    callReturn             \* per caller: what the call returned or raised

vars == << registry, certificate_deepcopy, heap, pcRegister, registerCalls,
           pcWalk, walkArg, walkCopy, walkJson, walkResult,
           pcCall, callArg, callLocal, callReturn >>

registerVars == << registry, certificate_deepcopy, pcRegister, registerCalls >>

walkVars == << pcWalk, walkArg, walkCopy, walkJson, walkResult >>

callVars == << pcCall, callArg, callLocal, callReturn >>

Absent == "absent"

None == [none |-> TRUE]

\* The certificate objects the collaborators built, by reference.
InputCertificates == << CertRsaSan, CertRsaBig, CertEc, CertDsa, CertEd25519 >>

InputRefs == DOMAIN InputCertificates

\* A dataclass instance holding a certificate and an object identifier.
Structures == [certificate : InputRefs, oid : ObjectIdentifiers]

Init ==
    /\ registry = [cls \in {"object"} |-> "object_to_json"]
    /\ certificate_deepcopy = Absent
    /\ heap = InputCertificates
    /\ pcRegister = "idle"
    /\ registerCalls = 0
    /\ pcWalk = "idle"
    /\ walkArg = None
    /\ walkCopy = 0
    /\ walkJson = None
    /\ walkResult = None
    /\ pcCall = [c \in Callers |-> "idle"]
    /\ callArg = [c \in Callers |-> None]
    /\ callLocal = [c \in Callers |-> None]
    /\ callReturn = [c \in Callers |-> None]

\* ------------------------------------------------------------------------
\* register_json_serializer_functions()

\* object_to_json.register(func): registry[cls] = func, cls being the
\* annotation of func's first parameter
Register(reg, cls, func) == DictSet(reg, cls, func)

DeepcopyMethod == "_deepcopy_method_for_x509_certificate"

RegisterBegin ==
    /\ pcRegister = "idle"
    /\ registerCalls < MaxRegisterCalls
    /\ registerCalls' = registerCalls + 1
    /\ pcRegister' = "line24"
    /\ UNCHANGED << registry, certificate_deepcopy, heap, walkVars, callVars >>

\* Variant: the class is patched before the functions are registered.
RegisterOidPatchFirst ==
    /\ pcRegister = "line24"
    /\ certificate_deepcopy' = DeepcopyMethod
    /\ registry' = Register(registry, "ObjectIdentifier", "_oid_to_json")
    /\ pcRegister' = "line25"
    /\ UNCHANGED << registerCalls, heap, walkVars, callVars >>

RegisterOid ==
    /\ pcRegister = "line24"
    /\ registry' = Register(registry, "ObjectIdentifier", "_oid_to_json")
    /\ pcRegister' = "line25"
    /\ UNCHANGED << certificate_deepcopy, registerCalls, heap, walkVars, callVars >>

RegisterCertificate ==
    /\ pcRegister = "line25"
    /\ registry' = Register(registry, "Certificate", "_certificate_to_json")
    /\ pcRegister' = "line34"
    /\ UNCHANGED << certificate_deepcopy, registerCalls, heap, walkVars, callVars >>

\* Variant: a repeated call removes the method it finds installed.
InstallDeepcopyToggle ==
    /\ pcRegister = "line34"
    /\ certificate_deepcopy' =
           IF certificate_deepcopy = Absent THEN DeepcopyMethod ELSE Absent
    /\ pcRegister' = "idle"
    /\ UNCHANGED << registry, registerCalls, heap, walkVars, callVars >>

\* Variant: the method is defined but not assigned to the class.
InstallDeepcopyMissing ==
    /\ pcRegister = "line34"
    /\ pcRegister' = "idle"
    /\ UNCHANGED << registry, certificate_deepcopy, registerCalls, heap, walkVars, callVars >>

InstallDeepcopy ==
    /\ pcRegister = "line34"
    /\ certificate_deepcopy' = DeepcopyMethod
    /\ pcRegister' = "idle"
    /\ UNCHANGED << registry, registerCalls, heap, walkVars, callVars >>

\* register_json_serializer_functions() calls that have returned
RegisterCompleted == IF pcRegister = "idle" THEN registerCalls ELSE registerCalls - 1

\* ------------------------------------------------------------------------
\* The method patched onto _Certificate, and the generic serializer that uses it

\* A new certificate object: <<the heap with it, its reference>>.
Allocate(h, value) == [heap |-> Append(h, value), ref |-> Len(h) + 1]

\* Variant: the method returns the certificate itself.
DeepcopyReturnsSelf(h, inner_self) == Ok([heap |-> h, ref |-> inner_self])

\* _deepcopy_method_for_x509_certificate(inner_self, memo)
_deepcopy_method_for_x509_certificate(h, inner_self) ==
    LET parsed == load_pem_x509_certificate(PublicBytesPem(h[inner_self]))
    IN  IF IsRaised(parsed) THEN parsed ELSE Ok(Allocate(h, parsed.ok))

\* copy.deepcopy(x) of a _Certificate: its __deepcopy__ when the class has one;
\* otherwise the copy falls back to pickling, which the class does not support.
DeepCopy(h, ref) ==
    IF certificate_deepcopy = Absent
    THEN Raise("TypeError")
    ELSE _deepcopy_method_for_x509_certificate(h, ref)

\* The classes of a value's class, most specific first.
Mro(cls) ==
    CASE cls = "_Certificate" -> << "_Certificate", "Certificate", "object" >>
      [] cls = "ObjectIdentifier" -> << "ObjectIdentifier", "object" >>

\* object_to_json.dispatch(cls): the function registered for the nearest class
Dispatch(reg, cls) ==
    LET mro == Mro(cls)
        i == CHOOSE k \in 1..Len(mro) :
                 /\ mro[k] \in DOMAIN reg
                 /\ \A j \in 1..(k - 1) : mro[j] \notin DOMAIN reg
    IN  reg[mro[i]]

\* Calling the function the dispatch found; the default implementation has
\* no serializer for these classes.
Apply(func, value) ==
    CASE func = "_certificate_to_json" -> _certificate_to_json(value)
      [] func = "_oid_to_json" -> Ok(_oid_to_json(value))
      [] func = "object_to_json" -> Raise("TypeError")

Failed(r, step) == [raised |-> r.raised, step |-> step]

WalkBegin(structure) ==
    /\ pcWalk = "idle"
    /\ walkArg' = structure
    /\ pcWalk' = "deepcopy"
    /\ UNCHANGED << heap, walkCopy, walkJson, walkResult, registerVars, callVars >>

WalkDeepCopy ==
    /\ pcWalk = "deepcopy"
    /\ LET copied == DeepCopy(heap, walkArg.certificate)
       IN  IF IsRaised(copied)
           THEN /\ walkResult' = Failed(copied, "deepcopy")
                /\ pcWalk' = "done"
                /\ UNCHANGED << heap, walkCopy >>
           ELSE /\ heap' = copied.ok.heap
                /\ walkCopy' = copied.ok.ref
                /\ pcWalk' = "serialize_certificate"
                /\ UNCHANGED walkResult
    /\ UNCHANGED << walkArg, walkJson, registerVars, callVars >>

WalkSerializeCertificate ==
    /\ pcWalk = "serialize_certificate"
    /\ LET json == Apply(Dispatch(registry, "_Certificate"), heap[walkCopy])
       IN  IF IsRaised(json)
           THEN /\ walkResult' = Failed(json, "serialize")
                /\ pcWalk' = "done"
                /\ UNCHANGED walkJson
           ELSE /\ walkJson' = [certificate |-> json.ok]
                /\ pcWalk' = "serialize_oid"
                /\ UNCHANGED walkResult
    /\ UNCHANGED << heap, walkArg, walkCopy, registerVars, callVars >>

WalkSerializeOid ==
    /\ pcWalk = "serialize_oid"
    /\ LET json == Apply(Dispatch(registry, "ObjectIdentifier"), walkArg.oid)
       IN  IF IsRaised(json)
           THEN walkResult' = Failed(json, "serialize")
           ELSE walkResult' = Ok(DictSet(walkJson, "oid", json.ok))
    /\ pcWalk' = "done"
    /\ UNCHANGED << heap, walkArg, walkCopy, walkJson, registerVars, callVars >>

\* The walk is over: its copy is garbage.
WalkEnd ==
    /\ pcWalk = "done"
    /\ heap' = SubSeq(heap, 1, Len(InputCertificates))
    /\ pcWalk' = "idle"
    /\ walkArg' = None
    /\ walkCopy' = 0
    /\ walkJson' = None
    /\ walkResult' = None
    /\ UNCHANGED << registerVars, callVars >>

\* ------------------------------------------------------------------------
\* Direct calls of the projectors, each in its own thread

CallCertificate(c, ref) ==
    /\ pcCall[c] = "idle"
    /\ callArg' = [callArg EXCEPT ![c] = [certificate |-> ref]]
    /\ pcCall' = [pcCall EXCEPT ![c] = "line42"]
    /\ UNCHANGED << heap, callLocal, callReturn, registerVars, walkVars >>

\* Variant: result is one module-level dict shared by all calls.
CallLine42Shared(c) ==
    /\ pcCall[c] = "line42"
    /\ LET literal == ResultLiteral(heap[callArg[c].certificate])
       IN  IF IsRaised(literal)
           THEN /\ callReturn' = [callReturn EXCEPT ![c] = literal]
                /\ pcCall' = [pcCall EXCEPT ![c] = "returned"]
                /\ UNCHANGED callLocal
           ELSE /\ callLocal' = [x \in Callers |-> literal.ok]
                /\ pcCall' = [pcCall EXCEPT ![c] = "line56"]
                /\ UNCHANGED callReturn
    /\ UNCHANGED << heap, callArg, registerVars, walkVars >>

CallLine42(c) ==
    /\ pcCall[c] = "line42"
    /\ LET literal == ResultLiteral(heap[callArg[c].certificate])
       IN  IF IsRaised(literal)
           THEN /\ callReturn' = [callReturn EXCEPT ![c] = literal]
                /\ pcCall' = [pcCall EXCEPT ![c] = "returned"]
                /\ UNCHANGED callLocal
           ELSE /\ callLocal' = [callLocal EXCEPT ![c] = literal.ok]
                /\ pcCall' = [pcCall EXCEPT ![c] = "line56"]
                /\ UNCHANGED callReturn
    /\ UNCHANGED << heap, callArg, registerVars, walkVars >>

CallLine56(c) ==
    /\ pcCall[c] = "line56"
    /\ callLocal' = [callLocal EXCEPT
                       ![c] = AddSubjectAlternativeName(heap[callArg[c].certificate], @)]
    /\ pcCall' = [pcCall EXCEPT ![c] = "line61"]
    /\ UNCHANGED << heap, callArg, callReturn, registerVars, walkVars >>

CallLine61(c) ==
    /\ pcCall[c] = "line61"
    /\ callReturn' = [callReturn EXCEPT
                        ![c] = AddPublicKeyInfo(heap[callArg[c].certificate], callLocal[c])]
    /\ callLocal' = [callLocal EXCEPT ![c] = None]
    /\ pcCall' = [pcCall EXCEPT ![c] = "returned"]
    /\ UNCHANGED << heap, callArg, registerVars, walkVars >>

CallOid(c, oid) ==
    /\ pcCall[c] = "idle"
    /\ callArg' = [callArg EXCEPT ![c] = [oid |-> oid]]
    /\ callReturn' = [callReturn EXCEPT ![c] = Ok(_oid_to_json(oid))]
    /\ pcCall' = [pcCall EXCEPT ![c] = "returned"]
    /\ UNCHANGED << heap, callLocal, registerVars, walkVars >>

\* The caller drops the result.
CallEnd(c) ==
    /\ pcCall[c] = "returned"
    /\ pcCall' = [pcCall EXCEPT ![c] = "idle"]
    /\ callArg' = [callArg EXCEPT ![c] = None]
    /\ callReturn' = [callReturn EXCEPT ![c] = None]
    /\ UNCHANGED << heap, callLocal, registerVars, walkVars >>

\* Registration racing the generic serializer.
Next ==
    \/ RegisterBegin
    \/ RegisterOid
    \/ RegisterCertificate
    \/ InstallDeepcopy
    \/ \E structure \in Structures : WalkBegin(structure)
    \/ WalkDeepCopy
    \/ WalkSerializeCertificate
    \/ WalkSerializeOid
    \/ WalkEnd

Spec == Init /\ [][Next]_vars

\* The projectors called from several threads, registration going on or done.
NextProjector ==
    \/ RegisterBegin
    \/ RegisterOid
    \/ RegisterCertificate
    \/ InstallDeepcopy
    \/ \E c \in Callers, ref \in InputRefs : CallCertificate(c, ref)
    \/ \E c \in Callers : CallLine42(c)
    \/ \E c \in Callers : CallLine56(c)
    \/ \E c \in Callers : CallLine61(c)
    \/ \E c \in Callers, oid \in ObjectIdentifiers : CallOid(c, oid)
    \/ \E c \in Callers : CallEnd(c)

SpecProjector == Init /\ [][NextProjector]_vars

\* ------------------------------------------------------------------------
\* Properties

\* A _certificate_to_json call of caller c has ended, by return or by raise.
CertificateCallEnded(c) == pcCall[c] = "returned" /\ "certificate" \in DOMAIN callArg[c]

\* A _certificate_to_json call of caller c has returned a mapping.
CertificateCallReturned(c) == CertificateCallEnded(c) /\ ~IsRaised(callReturn[c])

\* The certificate that call was given.
ArgumentOf(c) == InputCertificates[callArg[c].certificate]

MandatoryKeys ==
    { "as_pem", "hpkp_pin", "subject", "issuer", "serialNumber", "notBefore",
      "notAfter", "signatureAlgorithm", "publicKey" }

\* C1: every mapping _certificate_to_json returns has exactly the nine
\* mandatory keys, plus subjectAlternativeName exactly when the certificate
\* has at least one DNS subject alternative name; the key then holds that
\* non-empty list under DNS.
C1_ExactKeys ==
    \A c \in Callers :
        CertificateCallReturned(c) =>
            LET m == callReturn[c].ok
                dns == extract_dns_subject_alternative_names(ArgumentOf(c))
            IN  /\ DOMAIN m \ {"subjectAlternativeName"} = MandatoryKeys
                /\ "subjectAlternativeName" \in DOMAIN m <=> Len(dns) > 0
                /\ "subjectAlternativeName" \in DOMAIN m =>
                       /\ DOMAIN m.subjectAlternativeName = {"DNS"}
                       /\ m.subjectAlternativeName.DNS = dns
                       /\ Len(m.subjectAlternativeName.DNS) > 0

\* One call returned for a certificate with DNS names, another for a
\* certificate whose subject alternative names hold no DNS name.
C1_Witness ==
    /\ CertificateCallReturned("c1") /\ ArgumentOf("c1") = CertRsaSan
    /\ "subjectAlternativeName" \in DOMAIN callReturn["c1"].ok
    /\ CertificateCallReturned("c2") /\ ArgumentOf("c2") = CertEc
    /\ "subjectAlternativeName" \notin DOMAIN callReturn["c2"].ok

\* C2: for every certificate, whatever the variant of its public key, the
\* call yields a publicKey mapping with algorithm, size and exactly one of
\* curve (elliptic-curve key) and exponent (any other key).
C2_PublicKeyShape ==
    \A c \in Callers :
        CertificateCallEnded(c) =>
            /\ ~IsRaised(callReturn[c])
            /\ LET pk == callReturn[c].ok.publicKey
               IN  IF ArgumentOf(c).public_key.is_elliptic_curve
                   THEN DOMAIN pk = {"algorithm", "size", "curve"}
                   ELSE DOMAIN pk = {"algorithm", "size", "exponent"}

\* C3: _certificate_to_json is total: every call on a valid certificate
\* returns a mapping and none raises.
C3_Total ==
    \A c \in Callers : CertificateCallEnded(c) => "ok" \in DOMAIN callReturn[c]

Characters == {Chr(b) : b \in CharCodes}

IsString(v) == \A i \in 1..Len(v) : v[i] \in Characters

\* C7: the mapping holds no number: every leaf is a string, and serialNumber,
\* publicKey.size and publicKey.exponent are decimal-digit strings that
\* denote exactly the serial number, the key size and the public exponent.
C7_NumbersAsDecimalStrings ==
    \A c \in Callers :
        CertificateCallReturned(c) =>
            LET m == callReturn[c].ok
                cert == ArgumentOf(c)
                key == cert.public_key
                bits == IF key.is_elliptic_curve THEN key.curve.key_size ELSE key.key_size
            IN  /\ \A k \in MandatoryKeys \ {"publicKey"} : IsString(m[k])
                /\ \A k \in DOMAIN m.publicKey : IsString(m.publicKey[k])
                /\ "subjectAlternativeName" \in DOMAIN m =>
                       \A i \in 1..Len(m.subjectAlternativeName.DNS) :
                           IsString(m.subjectAlternativeName.DNS[i])
                /\ IsDecimalString(m.serialNumber)
                /\ ValueOfDecimal(m.serialNumber) = cert.serial_number
                /\ IsDecimalString(m.publicKey.size)
                /\ ValueOfDecimal(m.publicKey.size) = bits
                /\ "exponent" \in DOMAIN m.publicKey =>
                       /\ IsDecimalString(m.publicKey.exponent)
                       /\ ValueOfDecimal(m.publicKey.exponent) = key.public_numbers.e

\* A call returned for the certificate whose serial number has 160 bits and
\* whose public exponent has 65 bits.
C7_Witness ==
    \E c \in Callers :
        /\ CertificateCallReturned(c)
        /\ ArgumentOf(c) = CertRsaBig
        /\ Len(ArgumentOf(c).serial_number) > 8
        /\ Len(ArgumentOf(c).public_key.public_numbers.e) > 8
        /\ Len(callReturn[c].ok.publicKey.exponent) = 20

\* C8: parsing the as_pem string of a returned mapping gives a certificate
\* with the canonical (DER) encoding of the certificate that was projected.
C8_AsPemRoundTrip ==
    \A c \in Callers :
        CertificateCallReturned(c) =>
            LET parsed == load_pem_x509_certificate(EncodeAscii(callReturn[c].ok.as_pem))
            IN  /\ ~IsRaised(parsed)
                /\ PublicBytesDer(parsed.ok) = PublicBytesDer(ArgumentOf(c))

\* Calls returned for a certificate whose base64 text spans two lines and for
\* one whose base64 text ends in padding.
C8_Witness ==
    /\ CertificateCallReturned("c1") /\ ArgumentOf("c1") = CertRsaBig
    /\ Len(b64encode(CertRsaBig.der)) > 64
    /\ CertificateCallReturned("c2") /\ ArgumentOf("c2") = CertRsaSan
    /\ Len(CertRsaSan.der) % 3 = 1

\* What a call returns when it runs alone on the given argument.
RunAlone(arg) ==
    IF "certificate" \in DOMAIN arg
    THEN _certificate_to_json(InputCertificates[arg.certificate])
    ELSE Ok(_oid_to_json(arg.oid))

\* C9: however the projector calls of several threads interleave, each
\* returns what it returns when run alone on its argument, and no step of a
\* projector call changes the dispatch table, _Certificate.__deepcopy__ or
\* a certificate object.
C9_PureReentrant ==
    /\ [](\A c \in Callers : pcCall[c] = "returned" => callReturn[c] = RunAlone(callArg[c]))
    /\ [][pcCall' # pcCall =>
            /\ registry' = registry
            /\ certificate_deepcopy' = certificate_deepcopy
            /\ heap' = heap
            /\ heap = InputCertificates]_vars

\* Both callers are inside _certificate_to_json at once, on different
\* certificates, after a registration has completed.
C9_Witness ==
    /\ RegisterCompleted >= 1
    /\ pcCall["c1"] = "line56" /\ pcCall["c2"] = "line61"
    /\ callArg["c1"] # callArg["c2"]

\* The dispatch table after one register_json_serializer_functions() call.
RegistryAfterOneCall ==
    [cls \in {"object", "ObjectIdentifier", "Certificate"} |->
        CASE cls = "object" -> "object_to_json"
          [] cls = "ObjectIdentifier" -> "_oid_to_json"
          [] cls = "Certificate" -> "_certificate_to_json"]

\* The functions the dispatch table holds for a class.
HandlersFor(cls) == {registry[k] : k \in DOMAIN registry \cap {cls}}

\* C4: once one register_json_serializer_functions() call has returned, and
\* after and during every further call, the dispatch table holds exactly one
\* function for ObjectIdentifier and one for Certificate, _Certificate has
\* the one __deepcopy__ method, and the whole registration state is the state
\* one call leaves.
C4_Idempotent ==
    RegisterCompleted >= 1 =>
        /\ HandlersFor("ObjectIdentifier") = {"_oid_to_json"}
        /\ HandlersFor("Certificate") = {"_certificate_to_json"}
        /\ certificate_deepcopy = DeepcopyMethod
        /\ registry = RegistryAfterOneCall

\* The second call has returned.
C4_Witness == registerCalls >= 2 /\ pcRegister = "idle" /\ RegisterCompleted = registerCalls

\* The walk takes its deep-copy step.
DeepCopyStep == pcWalk = "deepcopy" /\ pcWalk' # "deepcopy"

CopyFailure == [raised |-> "TypeError", step |-> "deepcopy"]

\* C5: a deep-copy step taken once a register call has returned yields a copy,
\* whatever further register calls do, and the serialization steps that follow
\* find the registered functions; a deep-copy step taken before any register
\* call has begun fails with the copy error.
C5_CopyWorksOnceRegistered ==
    [][ /\ (DeepCopyStep /\ RegisterCompleted >= 1) =>
               /\ pcWalk' = "serialize_certificate"
               /\ walkCopy' \in DOMAIN heap'
               /\ walkResult' = None
        /\ (DeepCopyStep /\ registerCalls = 0) =>
               /\ pcWalk' = "done"
               /\ walkResult' = CopyFailure
        /\ (RegisterCompleted >= 1 /\ pcWalk \in {"serialize_certificate", "serialize_oid"}
            /\ pcWalk' = "done" /\ IsRaised(walkResult')) =>
               walkResult' = [raised |-> "AttributeError", step |-> "serialize"]
      ]_vars

\* A walk has returned the JSON of its structure while a second register call
\* is in progress.
C5_Witness ==
    /\ pcWalk = "done"
    /\ "ok" \in DOMAIN walkResult
    /\ DOMAIN walkResult.ok = {"certificate", "oid"}
    /\ registerCalls = 2
    /\ pcRegister = "line25"

\* C6: the copy the patched __deepcopy__ makes is another object than the
\* original, has the same canonical encoding (DER, and so PEM), and the
\* original objects stay as they were.
C6_DeepcopyEqualIndependent ==
    walkCopy # 0 =>
        /\ walkCopy # walkArg.certificate
        /\ walkCopy \notin InputRefs
        /\ walkCopy \in DOMAIN heap
        /\ PublicBytesDer(heap[walkCopy]) = PublicBytesDer(heap[walkArg.certificate])
        /\ PublicBytesPem(heap[walkCopy]) = PublicBytesPem(heap[walkArg.certificate])
        /\ SubSeq(heap, 1, Len(InputCertificates)) = InputCertificates

\* A copy of the certificate whose PEM text spans two lines exists.
C6_Witness ==
    /\ walkCopy # 0
    /\ pcWalk = "serialize_certificate"
    /\ heap[walkArg.certificate] = CertRsaBig
    /\ Len(heap) = Len(InputCertificates) + 1

\* C10: the three effects come in the order ObjectIdentifier function,
\* Certificate function, __deepcopy__: whenever __deepcopy__ is installed both
\* functions are registered, the Certificate function is never registered
\* without the ObjectIdentifier function, and a deep-copy step taken while
\* __deepcopy__ is absent fails with the copy error.
C10_RegistrationOrder ==
    /\ [](certificate_deepcopy # Absent =>
              /\ HandlersFor("ObjectIdentifier") = {"_oid_to_json"}
              /\ HandlersFor("Certificate") = {"_certificate_to_json"})
    /\ []("Certificate" \in DOMAIN registry => "ObjectIdentifier" \in DOMAIN registry)
    /\ [][(DeepCopyStep /\ certificate_deepcopy = Absent) =>
              (pcWalk' = "done" /\ walkResult' = CopyFailure)]_vars

\* The first register call has registered the Certificate function and not yet
\* installed __deepcopy__, and a walk is about to deep-copy a certificate.
C10_Witness ==
    /\ registerCalls = 1
    /\ pcRegister = "line34"
    /\ "Certificate" \in DOMAIN registry
    /\ certificate_deepcopy = Absent
    /\ pcWalk = "deepcopy"

====
